---- MODULE Spec2Model ----
(***************************************************************************)
(* kdlc: KDL to JSON converter (src/main.go).                              *)
(*                                                                         *)
(* The model has two parts, run in sequence by main:                       *)
(*   - processIncludes, the recursive @include resolver, as a stack        *)
(*     machine over a small file system;                                   *)
(*   - convertKDLToJSON / convertNodeToValue / convertValue, the           *)
(*     transcoder, as recursive operators over node trees.                 *)
(*                                                                         *)
(* Text is a sequence of characters.  The eight characters of the marker   *)
(* "@include" are one character of the model; a path between the quotes    *)
(* of a directive is written as its components, the separators implied.    *)
(***************************************************************************)
EXTENDS Integers, Sequences, FiniteSets, TLC

VARIABLES
    mode,        \* which family of file contents the disk holds
    cwdOk,       \* whether os.Getwd succeeds (filepath.Abs of a relative path)
    pc,          \* main's position
    argNameMap,  \* the global argNameMap
    files,       \* the disk: contents of the files read so far
    included,    \* the map passed to processIncludes (set of absolute paths)
    stack,       \* the activation records of processIncludes, innermost last
    readLog,     \* the absolute paths handed to os.ReadFile, in order
    data,        \* main's data
    err,         \* main's err
    doc,         \* main's doc
    jsonData,    \* main's jsonData (the value tree that is marshalled)
    stdout,      \* what was written to standard output
    stderr,      \* what was written to standard error
    exitCode     \* the process's exit status, -1 while running

vars == <<mode, cwdOk, pc, argNameMap, files, included, stack, readLog,
          data, err, doc, jsonData, stdout, stderr, exitCode>>

----------------------------------------------------------------------------
(* Bounds *)

MaxDiskLines == 4
MaxTextLen == 5
MaxArgs == 6
MaxNodes == 3

----------------------------------------------------------------------------
(* Characters and text *)

NL == "\n"
Q == "\""
Marker == "@include"
WS == {" "}

RECURSIVE SeqsUpTo(_, _)
SeqsUpTo(S, n) ==
    IF n = 0 THEN {<<>>}
    ELSE LET shorter == SeqsUpTo(S, n - 1)
         IN  shorter \cup {Append(s, x) : s \in {t \in shorter : Len(t) = n - 1}, x \in S}

\* strings.Contains(content, "@include")
Contains(content) == \E i \in 1..Len(content) : content[i] = Marker

\* index of the first character at or after i that satisfies no member of S,
\* Len + 1 when there is none
RECURSIVE SkipOver(_, _, _)
SkipOver(line, i, S) ==
    IF i > Len(line) \/ line[i] \notin S THEN i ELSE SkipOver(line, i + 1, S)

\* index of the first character at or after i that is c, Len + 1 when none
RECURSIVE IndexFrom(_, _, _)
IndexFrom(line, i, c) ==
    IF i > Len(line) \/ line[i] = c THEN i ELSE IndexFrom(line, i + 1, c)

\* strings.Split(content, "\n") dropping trailing empty strings
RECURSIVE SplitDropTrailing(_)
SplitDropTrailing(content) ==
    LET k == IndexFrom(content, 1, NL)
    IN  IF k > Len(content) THEN (IF content = <<>> THEN <<>> ELSE <<content>>)
        ELSE LET rest == SplitDropTrailing(SubSeq(content, k + 1, Len(content)))
                 head == SubSeq(content, 1, k - 1)
             IN  IF rest = <<>> /\ head = <<>> THEN <<>> ELSE <<head>> \o rest

\* strings.Split(content, "\n")
RECURSIVE Split(_)
Split(content) ==
    LET k == IndexFrom(content, 1, NL)
    IN  IF k > Len(content) THEN <<content>>
        ELSE <<SubSeq(content, 1, k - 1)>> \o Split(SubSeq(content, k + 1, Len(content)))

\* strings.Join(result, "\n")
RECURSIVE Join(_)
Join(result) ==
    IF result = <<>> THEN <<>>
    ELSE IF Len(result) = 1 THEN result[1]
    ELSE result[1] \o <<NL>> \o Join(Tail(result))

\* includeRegex.FindStringSubmatch(line) for ^\s*@include\s+"([^"]+)" :
\* the place of the opening and closing quote, <<0, 0>> when the line does
\* not match
FindStringSubmatch(line) ==
    LET i == SkipOver(line, 1, WS)
        j == SkipOver(line, i + 1, WS)
        k == IndexFrom(line, j + 1, Q)
    IN  IF /\ i <= Len(line) /\ line[i] = Marker
           /\ j > i + 1
           /\ j <= Len(line) /\ line[j] = Q
           /\ k <= Len(line) /\ k > j + 1
        THEN <<j, k>> ELSE <<0, 0>>

Matches(line) == FindStringSubmatch(line) # <<0, 0>>

\* matches[1]
Submatch(line) ==
    LET m == FindStringSubmatch(line) IN SubSeq(line, m[1] + 1, m[2] - 1)

----------------------------------------------------------------------------
(* Paths: [abs |-> rooted or not, c |-> the components] *)

Rel(c) == [abs |-> FALSE, c |-> c]
Abs(c) == [abs |-> TRUE, c |-> c]

\* the process's working directory
Cwd == <<"w">>

\* filepath.Clean: "." and inner ".." are eliminated lexically; ".." is
\* dropped at the root and kept at the start of a relative path
RECURSIVE CleanFrom(_, _, _)
CleanFrom(abs, c, out) ==
    IF c = <<>> THEN out
    ELSE LET x == Head(c)
         IN  IF x = "." THEN CleanFrom(abs, Tail(c), out)
             ELSE IF x = ".."
                  THEN IF out # <<>> /\ out[Len(out)] # ".."
                       THEN CleanFrom(abs, Tail(c), SubSeq(out, 1, Len(out) - 1))
                       ELSE IF abs THEN CleanFrom(abs, Tail(c), out)
                       ELSE CleanFrom(abs, Tail(c), Append(out, x))
             ELSE CleanFrom(abs, Tail(c), Append(out, x))

Clean(p) == [abs |-> p.abs, c |-> CleanFrom(p.abs, p.c, <<>>)]

\* filepath.Dir taken to be the working directory for every file
DirIsWorkingDirectory(p) == Rel(<<>>)

\* filepath.Dir
Dir(p) ==
    Clean([abs |-> p.abs, c |-> IF p.c = <<>> THEN <<>> ELSE SubSeq(p.c, 1, Len(p.c) - 1)])

\* filepath.Join(dir, includeFile)
PathJoin(dir, includeFile) == Clean([abs |-> dir.abs, c |-> dir.c \o includeFile])

\* filepath.Abs, when os.Getwd succeeds
AbsPath(p) == IF p.abs THEN Clean(p) ELSE Clean(Abs(Cwd \o p.c))

----------------------------------------------------------------------------
(* The disk *)

Dirs == {<<>>, <<"w">>, <<"w", "s">>}
FilePaths == {<<"w", "a">>, <<"w", "b">>, <<"w", "c">>, <<"w", "s", "d">>}

\* the file named on the command line: flag.Arg(0)
RootFile == Rel(<<"a">>)

\* the operating system's resolution of a path, component by component:
\* every component before the last must be an existing directory
RECURSIVE Walk(_, _)
Walk(cur, c) ==
    IF c = <<>> THEN [ok |-> TRUE, c |-> cur]
    ELSE LET x == Head(c)
         IN  IF x = "." THEN Walk(cur, Tail(c))
             ELSE IF x = ".."
                  THEN Walk(IF cur = <<>> THEN cur ELSE SubSeq(cur, 1, Len(cur) - 1), Tail(c))
             ELSE IF Tail(c) = <<>> THEN [ok |-> TRUE, c |-> Append(cur, x)]
             ELSE IF Append(cur, x) \in Dirs THEN Walk(Append(cur, x), Tail(c))
             ELSE [ok |-> FALSE, c |-> <<>>]

OsResolve(p) == Walk(IF p.abs THEN <<>> ELSE Cwd, p.c)

\* os.ReadFile(filename) succeeds; a relative path needs the working directory
Readable(p) == (p.abs \/ cwdOk) /\ OsResolve(p).ok /\ OsResolve(p).c \in FilePaths

Unread == [known |-> FALSE, text |-> <<>>]

\* an @include line naming the path t
Directive(t) == <<Marker, " ", Q>> \o t \o <<Q>>

IncludeTargets == {<<"a">>, <<"b">>, <<"c">>, <<"s", "d">>, <<"..", "a">>, <<"m">>}

\* the lines a file at path may hold: a directive, a node x, a node n whose
\* argument is the file's own name, a node with an unterminated string, or
\* a node whose argument is the float that is not a number
LineKinds(path) ==
    {Directive(t) : t \in IncludeTargets}
        \cup {<<"x">>, <<"n", " ", path[Len(path)]>>, <<"n", " ", Q>>, <<"n", " ", "nan">>}

Chars == {Marker, " ", Q, NL, "b", "n"}


\* the number of non-empty lines of a text
Weight(text) == Cardinality({i \in 1..Len(Split(text)) : Split(text)[i] # <<>>})

RECURSIVE SumWeights(_, _)
SumWeights(fs, ps) ==
    IF ps = {} THEN 0
    ELSE LET p == CHOOSE q \in ps : TRUE
         IN  Weight(fs[p].text) + SumWeights(fs, ps \ {p})

\* the texts of n lines or fewer, each line one of LineKinds
LineTexts ==
    [path \in FilePaths |->
        [n \in 0..MaxDiskLines |-> {Join(ls) : ls \in SeqsUpTo(LineKinds(path), n)}]]

CharTexts == SeqsUpTo(Chars, MaxTextLen)

\* the contents a file may turn out to hold when it is first read: the disk
\* holds MaxDiskLines lines in all ("lines"), or one file of MaxTextLen
\* characters that only "b" can be included from ("chars")
ContentsFor(m, path, fs) ==
    IF m = "lines"
    THEN LineTexts[path][MaxDiskLines - SumWeights(fs, FilePaths)]
    ELSE IF path = <<"w", "a">> THEN CharTexts
    ELSE {<<"n">>}

----------------------------------------------------------------------------
(* processIncludes *)

\* an error: its kind, the path its message names, and how many times line
\* 129 has wrapped it
NoError == [kind |-> "none", file |-> Rel(<<>>), wraps |-> 0]
Error(kind, file) == [kind |-> kind, file |-> file, wraps |-> 0]

\* line 129 with the error of the failed include dropped
ErrorSwallowed(e) == NoError

\* line 129: the error of the failed include, wrapped
Wrap(e) == [e EXCEPT !.wraps = e.wraps + 1]

\* the activation record of a call processIncludes(filename, included)
Call(filename) ==
    [filename |-> filename, st |-> "entry", lines |-> <<>>, i |-> 1,
     result |-> <<>>, val |-> <<>>, err |-> NoError]

Returned(f, val, e) == [f EXCEPT !.st = "ret", !.val = val, !.err = e]

Top == stack[Len(stack)]
SetTop(f) == [stack EXCEPT ![Len(stack)] = f]

\* line 93 with the map consulted in vain
NeverIncluded(absPath, inc) == FALSE

\* line 93: included[absPath]
IsIncluded(absPath, inc) == absPath \in inc

\* line 128 with the error dropped
IncludeNeverFailed(e) == FALSE

\* line 128: err != nil
IncludeFailed(e) == e.kind # "none"

\* the map with the callee's entry deleted as the call returns
ScopedToBranch(inc, absPath) == inc \ {absPath}

\* lines 96 and 127-133: the map is shared by every call and the callee's
\* entry stays in it when the call returns
AfterReturn(inc, absPath) == inc

\* line 133 with the included content put before the lines gathered so far
IncludePrepended(result, includedContent) == <<includedContent>> \o result

\* line 133: result = append(result, includedContent)
Include(result, includedContent) == Append(result, includedContent)

\* lines 88-112: from the call to the start of the loop
Enter ==
    /\ pc = "resolve" /\ stack # <<>> /\ Top.st = "entry"
    /\ LET f == Top
           absPath == AbsPath(f.filename)
       IN  \/ /\ ~f.filename.abs /\ ~cwdOk
              /\ stack' = SetTop(Returned(f, <<>>, Error("abs", f.filename)))
              /\ UNCHANGED <<included, files, readLog>>
           \/ /\ f.filename.abs \/ cwdOk
              /\ IsIncluded(absPath, included)
              /\ stack' = SetTop(Returned(f, <<>>, Error("circular", f.filename)))
              /\ UNCHANGED <<included, files, readLog>>
           \/ /\ f.filename.abs \/ cwdOk
              /\ ~IsIncluded(absPath, included)
              /\ included' = included \cup {absPath}
              /\ readLog' = Append(readLog, absPath)
              /\ \/ /\ ~Readable(f.filename)
                    /\ stack' = SetTop(Returned(f, <<>>, Error("read", f.filename)))
                    /\ UNCHANGED files
                 \/ /\ Readable(f.filename)
                    /\ LET at == OsResolve(f.filename).c
                       IN  \E content \in (IF files[at].known THEN {files[at].text}
                                           ELSE ContentsFor(mode, at, files)) :
                             /\ files' = [files EXCEPT ![at] = [known |-> TRUE, text |-> content]]
                             /\ IF ~Contains(content)
                                THEN stack' = SetTop(Returned(f, content, NoError))
                                ELSE stack' = SetTop([f EXCEPT !.st = "loop",
                                                               !.lines = Split(content),
                                                               !.i = 1, !.result = <<>>])
    /\ UNCHANGED <<mode, cwdOk, pc, argNameMap, data, err, doc, jsonData,
                   stdout, stderr, exitCode>>

\* lines 118-137: one iteration of the loop, up to the recursive call
Loop ==
    /\ pc = "resolve" /\ stack # <<>> /\ Top.st = "loop"
    /\ LET f == Top
       IN  \/ /\ f.i <= Len(f.lines) /\ Matches(f.lines[f.i])
              /\ stack' = Append(stack,
                     Call(PathJoin(Dir(f.filename), Submatch(f.lines[f.i]))))
           \/ /\ f.i <= Len(f.lines) /\ ~Matches(f.lines[f.i])
              /\ stack' = SetTop([f EXCEPT !.result = Append(f.result, f.lines[f.i]),
                                           !.i = f.i + 1])
           \/ /\ f.i > Len(f.lines)
              /\ stack' = SetTop(Returned(f, Join(f.result), NoError))
    /\ UNCHANGED <<mode, cwdOk, pc, argNameMap, files, included, readLog, data, err,
                   doc, jsonData, stdout, stderr, exitCode>>

\* lines 127-133: the recursive call returns to the loop of its caller
Return ==
    /\ pc = "resolve" /\ Len(stack) > 1 /\ Top.st = "ret"
    /\ LET callee == Top
           caller == stack[Len(stack) - 1]
           rest == SubSeq(stack, 1, Len(stack) - 2)
       IN  \/ /\ IncludeFailed(callee.err)
              /\ stack' = Append(rest, Returned(caller, <<>>, Wrap(callee.err)))
           \/ /\ ~IncludeFailed(callee.err)
              /\ stack' = Append(rest,
                     [caller EXCEPT !.result = Include(caller.result, callee.val),
                                    !.i = caller.i + 1])
    /\ included' = AfterReturn(included, AbsPath(Top.filename))
    /\ UNCHANGED <<mode, cwdOk, pc, argNameMap, files, readLog, data, err,
                   doc, jsonData, stdout, stderr, exitCode>>

----------------------------------------------------------------------------
(* The argument names *)

NumFlags == 5

\* lines 17-23
DefaultArgNames ==
    (1 :> "arg1") @@ (2 :> "arg2") @@ (3 :> "arg3") @@ (4 :> "arg4") @@ (5 :> "arg5")

----------------------------------------------------------------------------
(* JSON values (interface{} trees) and document values *)

JNull == [t |-> "null"]
JScalar(t, v) == [t |-> t, v |-> v]
JArray(a) == [t |-> "array", a |-> a]
JObject(m) == [t |-> "object", m |-> m]

EmptyMap == [k \in {} |-> JNull]

\* obj[key] = value keeping the value a key already has
PutIfAbsent(obj, key, value) ==
    [k \in DOMAIN obj \cup {key} |-> IF k \in DOMAIN obj THEN obj[k] ELSE value]

\* obj[key] = value
Put(obj, key, value) ==
    [k \in DOMAIN obj \cup {key} |-> IF k = key THEN value ELSE obj[k]]

\* a *document.Value: k is the type of ResolvedValue(), v its rendering;
\* "nilptr" is the nil pointer
Value(k, v) == [k |-> k, v |-> v]
NilPtr == Value("nilptr", "")

\* lines 252-272
convertValue(value) ==
    IF value.k = "nilptr" THEN JNull
    ELSE IF value.k = "string" THEN JScalar("string", value.v)
    ELSE IF value.k = "int64" THEN JScalar("int", value.v)
    ELSE IF value.k = "float64" THEN JScalar("float", value.v)
    ELSE IF value.k = "bool" THEN JScalar("bool", value.v)
    ELSE IF value.k = "nil" THEN JNull
    ELSE JScalar("string", value.v)

\* lines 26-31 counting positions from 0
getArgNameZeroBased(index) ==
    IF (index - 1) \in DOMAIN argNameMap THEN argNameMap[index - 1]
    ELSE "arg" \o ToString(index - 1)

\* lines 26-31
getArgName(index) ==
    IF index \in DOMAIN argNameMap THEN argNameMap[index]
    ELSE "arg" \o ToString(index)

\* lines 178-181 and 220-223: for i, arg := range node.Arguments, from i on
RECURSIVE PutArguments(_, _, _)
PutArguments(obj, arguments, i) ==
    IF i > Len(arguments) THEN obj
    ELSE PutArguments(Put(obj, getArgName(i), convertValue(arguments[i])), arguments, i + 1)

\* lines 186-188 and 227-229 with the properties kept under one key
PropertiesWrapped(obj, properties, todo) ==
    Put(obj, "properties", JObject([name \in todo |-> convertValue(properties[name])]))

\* lines 186-188 and 227-229: for name, value := range node.Properties
RECURSIVE PutProperties(_, _, _)
PutProperties(obj, properties, todo) ==
    IF todo = {} THEN obj
    ELSE LET name == CHOOSE n \in todo : TRUE
         IN  PutProperties(Put(obj, name, convertValue(properties[name])),
                           properties, todo \ {name})

\* lines 147-151 and 192-196: the keys of nodeGroups / childGroups
GroupKeys(nodes) == {nodes[i].name : i \in 1..Len(nodes)}

\* lines 147-151 and 192-196 with each node put before the earlier ones
GroupReversed(nodes, key) ==
    LET Named(n) == n.name = key
        g == SelectSeq(nodes, Named)
    IN  [i \in 1..Len(g) |-> g[Len(g) + 1 - i]]

\* lines 147-151 and 192-196: nodeGroups[key] / childGroups[key]
Group(nodes, key) ==
    LET Named(n) == n.name = key IN SelectSeq(nodes, Named)

\* lines 234-250 with a single argument wrapped in an array too
ArgumentsAlwaysArray(node) ==
    IF Len(node.args) >= 1
    THEN JArray([i \in 1..Len(node.args) |-> convertValue(node.args[i])])
    ELSE JNull

\* lines 234-250: a node without children and without properties
ArgumentsOnly(node) ==
    IF Len(node.args) > 1
    THEN JArray([i \in 1..Len(node.args) |-> convertValue(node.args[i])])
    ELSE IF Len(node.args) = 1 THEN convertValue(node.args[1])
    ELSE JNull

\* line 173 for a node with two children or more
HasSeveralChildren(node) == Len(node.children) > 1

\* line 173: len(node.Children) > 0
HasChildren(node) == Len(node.children) > 0

\* lines 171-250, and lines 153-166 and 199-209 (PutGroups: one key per
\* group, an array for a group of several nodes), with the ranges over the
\* maps in one order
RECURSIVE convertNodeToValue(_), PutGroups(_, _, _)
PutGroups(obj, nodes, todo) ==
    IF todo = {} THEN obj
    ELSE LET key == CHOOSE k \in todo : TRUE
             group == Group(nodes, key)
             value == IF Len(group) = 1 THEN convertNodeToValue(group[1])
                      ELSE JArray([i \in 1..Len(group) |-> convertNodeToValue(group[i])])
         IN  PutGroups(Put(obj, key, value), nodes, todo \ {key})

convertNodeToValue(node) ==
    IF HasChildren(node)
    THEN LET withArgs == PutArguments(EmptyMap, node.args, 1)
             withProps == PutProperties(withArgs, node.props, DOMAIN node.props)
         IN  JObject(PutGroups(withProps, node.children, GroupKeys(node.children)))
    ELSE IF DOMAIN node.props # {}
    THEN LET withArgs == PutArguments(EmptyMap, node.args, 1)
         IN  JObject(PutProperties(withArgs, node.props, DOMAIN node.props))
    ELSE ArgumentsOnly(node)

\* lines 142-169; the result is the value that json.MarshalIndent is given
convertKDLToJSON(d) == JObject(PutGroups(EmptyMap, d, GroupKeys(d)))

\* the orders in which a range over a map with the keys S may yield them
RECURSIVE IterationOrders(_)
IterationOrders(S) ==
    IF S = {} THEN {<<>>}
    ELSE UNION {{<<k>> \o o : o \in IterationOrders(S \ {k})} : k \in S}

\* lines 186-188 and 227-229, the range yielding the names in the order given
RECURSIVE PutPropertiesIn(_, _, _)
PutPropertiesIn(obj, properties, order) ==
    IF order = <<>> THEN obj
    ELSE PutPropertiesIn(Put(obj, Head(order), convertValue(properties[Head(order)])),
                         properties, Tail(order))

\* lines 171-250 and 153-166, 199-209 with the ranges over node.Properties,
\* childGroups and nodeGroups in any order: the values that may result
RECURSIVE convertNodeToValueAnyOrder(_), PutGroupsIn(_, _, _)

\* the arrays of lines 160-163 and 203-206
ArraysOf(group) ==
    {a \in [1..Len(group) ->
                UNION {convertNodeToValueAnyOrder(group[i]) : i \in 1..Len(group)}] :
        \A i \in 1..Len(group) : a[i] \in convertNodeToValueAnyOrder(group[i])}

\* lines 155-165 and 200-208 with the nodes of a group taken in any order
GroupValueShuffled(group) ==
    IF Len(group) = 1 THEN convertNodeToValueAnyOrder(group[1])
    ELSE {JArray([i \in 1..Len(group) |-> a[o[i]]]) :
            a \in ArraysOf(group), o \in IterationOrders(1..Len(group))}

\* lines 155-165 and 200-208: the value put for a group
GroupValue(group) ==
    IF Len(group) = 1 THEN convertNodeToValueAnyOrder(group[1])
    ELSE {JArray(a) : a \in ArraysOf(group)}

\* lines 154-166 and 199-209, the range yielding the keys in the order given
PutGroupsIn(objs, nodes, order) ==
    IF order = <<>> THEN objs
    ELSE PutGroupsIn({Put(obj, Head(order), v) :
                        obj \in objs, v \in GroupValue(Group(nodes, Head(order)))},
                     nodes, Tail(order))

PutGroupsAnyOrder(objs, nodes) ==
    UNION {PutGroupsIn(objs, nodes, o) : o \in IterationOrders(GroupKeys(nodes))}

convertNodeToValueAnyOrder(node) ==
    LET withArgs == PutArguments(EmptyMap, node.args, 1)
        withProps == {PutPropertiesIn(withArgs, node.props, o) :
                        o \in IterationOrders(DOMAIN node.props)}
    IN  IF HasChildren(node)
        THEN {JObject(m) : m \in PutGroupsAnyOrder(withProps, node.children)}
        ELSE IF DOMAIN node.props # {}
        THEN {JObject(m) : m \in withProps}
        ELSE {ArgumentsOnly(node)}

\* lines 142-169 with the range over nodeGroups in any order
convertKDLToJSONAnyOrder(d) == {JObject(m) : m \in PutGroupsAnyOrder({EmptyMap}, d)}

----------------------------------------------------------------------------
(* The parser, kdl.Parse: one node per non-blank line, the name first and *)
(* then its arguments, strings but for the float "nan"; the marker and    *)
(* the quote do not parse                                                 *)

Node(name, args, props, children) ==
    [name |-> name, args |-> args, props |-> props, children |-> children]

NoProps == [k \in {} |-> NilPtr]

Words(line) == LET NotSpace(c) == c \notin WS IN SelectSeq(line, NotSpace)

ParseValue(word) ==
    IF word = "nan" THEN Value("float64", "NaN") ELSE Value("string", word)

ParseLine(line) ==
    LET w == Words(line)
    IN  Node(w[1], [i \in 1..(Len(w) - 1) |-> ParseValue(w[i + 1])], NoProps, <<>>)

ParseOk(text) ==
    \A i \in 1..Len(text) : text[i] \notin {Marker, Q}

Parse(text) ==
    LET lines == Split(text)
        NotBlank(l) == Words(l) # <<>>
        kept == SelectSeq(lines, NotBlank)
    IN  [i \in 1..Len(kept) |-> ParseLine(kept[i])]

----------------------------------------------------------------------------
(* The documents and flags the transcoder is run on *)

\* the values of a document, every type of the switch in convertValue
ValueCycle ==
    <<Value("string", "s"), Value("int64", "7"), Value("float64", "0.5"),
      Value("bool", "true"), Value("nil", "null"), Value("other", "(u8)1"),
      NilPtr, Value("float64", "NaN")>>

\* k arguments, the kinds taken in turn from ValueCycle starting after seed
ArgsOf(k, seed) == [i \in 1..k |-> ValueCycle[((i + seed - 1) % Len(ValueCycle)) + 1]]

PropValues == {Value("string", "p"), Value("int64", "9")}
PropMaps == UNION {[S -> PropValues] : S \in SUBSET {"x", "arg1"}}

Leaf(name, k) == Node(name, ArgsOf(k, 0), NoProps, <<>>)

\* one node with up to MaxArgs arguments, any properties, and no, one or
\* two children
RichChildren ==
    {<<>>, <<Leaf("x", 0)>>, <<Leaf("arg1", 1)>>, <<Leaf("x", 1), Leaf("x", 2)>>,
     <<Leaf("x", 1), Leaf("arg1", 2)>>,
     <<Node("n", ArgsOf(MaxArgs, 0), [q \in {"x"} |-> Value("string", "p")], <<>>)>>}
RichDocs ==
    {<<Node("n", ArgsOf(k, seed), props, children)>> :
        k \in 0..MaxArgs, seed \in 0..(Len(ValueCycle) - 1),
        props \in PropMaps, children \in RichChildren}

\* every forest of MaxNodes nodes or fewer, each node one of TreeLabels
TreeLabels ==
    {Node(name, ArgsOf(k, 0), props, <<>>) :
        name \in {"n", "x"}, k \in {0, 1, 2},
        props \in {NoProps, [q \in {"x"} |-> Value("string", "p")]}}

RECURSIVE Forests(_), Trees(_)
Trees(n) ==
    {Node(l.name, l.args, l.props, f) : l \in TreeLabels, f \in Forests(n - 1)}
Forests(n) ==
    IF n = 0 THEN {<<>>}
    ELSE UNION {{<<t>> \o f : t \in Trees(j), f \in Forests(n - j)} : j \in 1..n}

Docs == RichDocs \cup UNION {Forests(n) : n \in 0..MaxNodes}

\* what flag.Parse yields for -arg1 .. -arg5
FlagSets ==
    {[i \in 1..NumFlags |-> IF i = 1 THEN a1 ELSE IF i = 2 THEN a2 ELSE DefaultArgNames[i]] :
        a1 \in {"arg1", "x"}, a2 \in {"arg2", "x"}}

----------------------------------------------------------------------------
(* main *)

NoDoc == <<>>
NoValue == [t |-> "none"]

\* json.MarshalIndent fails on a float that is not a number
RECURSIVE Marshalable(_)
Marshalable(v) ==
    IF v.t = "object" THEN \A k \in DOMAIN v.m : Marshalable(v.m[k])
    ELSE IF v.t = "array" THEN \A i \in 1..Len(v.a) : Marshalable(v.a[i])
    ELSE ~(v.t = "float" /\ v.v = "NaN")

\* lines 33-61: the flags, the usage check, the call of processIncludes
MainStart ==
    /\ pc = "start"
    /\ \E flags \in {f \in FlagSets : f[2] = "arg2"}, nargs \in {0, 1} :
         /\ argNameMap' = [i \in 1..NumFlags |-> flags[i]]
         /\ IF nargs < 1
            THEN /\ pc' = "exit" /\ exitCode' = 1 /\ stderr' = Append(stderr, "Usage")
                 /\ UNCHANGED <<stack>>
            ELSE /\ pc' = "resolve" /\ stack' = <<Call(RootFile)>>
                 /\ UNCHANGED <<exitCode, stderr>>
    /\ UNCHANGED <<mode, cwdOk, files, included, readLog, data, err, doc,
                   jsonData, stdout>>

\* lines 61-65: processIncludes returns to main
MainResolved ==
    /\ pc = "resolve" /\ Len(stack) = 1 /\ Top.st = "ret"
    /\ data' = Top.val /\ err' = Top.err /\ stack' = <<>>
    /\ included' = AfterReturn(included, AbsPath(Top.filename))
    /\ IF Top.err.kind # "none"
       THEN /\ pc' = "exit" /\ exitCode' = 1
            /\ stderr' = Append(stderr, "Error processing includes")
       ELSE /\ pc' = "parse" /\ UNCHANGED <<exitCode, stderr>>
    /\ UNCHANGED <<mode, cwdOk, argNameMap, files, readLog, doc, jsonData, stdout>>

\* lines 67-72
MainParse ==
    /\ pc = "parse"
    /\ IF ParseOk(data)
       THEN /\ doc' = Parse(data) /\ pc' = "convert"
            /\ UNCHANGED <<err, exitCode, stderr>>
       ELSE /\ err' = Error("parse", RootFile) /\ pc' = "exit" /\ exitCode' = 1
            /\ stderr' = Append(stderr, "Error parsing KDL")
            /\ UNCHANGED doc
    /\ UNCHANGED <<mode, cwdOk, argNameMap, files, included, stack, readLog, data,
                   jsonData, stdout>>

\* lines 74-79
MainConvert ==
    /\ pc = "convert"
    /\ \E result \in convertKDLToJSONAnyOrder(doc) :
           IF Marshalable(result)
           THEN /\ jsonData' = result /\ pc' = "print"
                /\ UNCHANGED <<err, exitCode, stderr>>
           ELSE /\ err' = Error("convert", RootFile) /\ pc' = "exit" /\ exitCode' = 1
                /\ stderr' = Append(stderr, "Error converting to JSON")
                /\ UNCHANGED jsonData
    /\ UNCHANGED <<mode, cwdOk, argNameMap, files, included, stack, readLog, data,
                   doc, stdout>>

\* lines 81-83
MainPrint ==
    /\ pc = "print"
    /\ stdout' = Append(stdout, jsonData)
    /\ pc' = "done" /\ exitCode' = 0
    /\ UNCHANGED <<mode, cwdOk, argNameMap, files, included, stack, readLog, data,
                   err, doc, jsonData, stderr>>

InitCommon ==
    /\ cwdOk \in BOOLEAN
    /\ files = [p \in FilePaths |-> Unread]
    /\ included = {}
    /\ stack = <<>>
    /\ readLog = <<>>
    /\ data = <<>>
    /\ err = NoError
    /\ jsonData = NoValue
    /\ stdout = <<>>
    /\ stderr = <<>>
    /\ exitCode = -1

\* the process starts; the disk holds lines
Init ==
    /\ mode = "lines" /\ pc = "start" /\ argNameMap = DefaultArgNames /\ doc = NoDoc
    /\ InitCommon

\* the process starts; the root file holds any text of MaxTextLen characters
InitText ==
    /\ mode = "chars" /\ pc = "start" /\ argNameMap = DefaultArgNames /\ doc = NoDoc
    /\ InitCommon

\* main after kdl.Parse, with any document and any flags
InitConv ==
    /\ mode = "doc" /\ pc = "convert" /\ argNameMap \in FlagSets /\ doc \in Docs
    /\ InitCommon

Next ==
    \/ MainStart \/ Enter \/ Loop \/ Return \/ MainResolved
    \/ MainParse \/ MainConvert \/ MainPrint

NextConv == MainConvert \/ MainPrint

Spec == Init /\ [][Next]_vars
SpecText == InitText /\ [][Next]_vars
SpecConv == InitConv /\ [][NextConv]_vars

\* the process is one goroutine that runs until it exits: a step that can
\* be taken is taken.  This is WF_vars(Next) written out: a step of Next is
\* enabled exactly when main has not exited, and every step from such a
\* state is a step of Next.
Running == pc \notin {"exit", "done"}
Fairness == []<>~Running \/ []<><<Running>>_vars

SpecLive == Init /\ [][Next]_vars /\ Fairness

----------------------------------------------------------------------------
(* The include graph of the disk, as far as the files are known *)

RootPath == AbsPath(RootFile).c

\* the name by which processIncludes reaches the file at path
RelName(path) == Rel(SubSeq(path, Len(Cwd) + 1, Len(path)))

\* the places where a line of text starts, and the line that starts at i
LineStarts(text) == {i \in 1..Len(text) : i = 1 \/ text[i - 1] = NL}
LineFrom(text, i) == SubSeq(text, i, IndexFrom(text, i, NL) - 1)

\* the directive lines of a text, each as the path it names
DirectivesOf(text) ==
    {Submatch(LineFrom(text, i)) : i \in {k \in LineStarts(text) : Matches(LineFrom(text, k))}}

NoDirectiveLine(text) == DirectivesOf(text) = {}

\* the absolute paths that the file at path includes
IncludesOf(path) ==
    IF ~files[path].known THEN {}
    ELSE {AbsPath(PathJoin(Dir(RelName(path)), t)).c : t \in DirectivesOf(files[path].text)}

RECURSIVE ReachableFrom(_, _)
ReachableFrom(S, n) ==
    IF n = 0 THEN S
    ELSE ReachableFrom(S \cup UNION {IncludesOf(q) : q \in S \cap FilePaths}, n - 1)

\* the root file includes itself, directly or through a chain
RootOnCycle == RootPath \in ReachableFrom(IncludesOf(RootPath), Cardinality(FilePaths))

Resolved == pc \notin {"start", "resolve"}

\* the absolute paths of the calls below the innermost one
Chain == {AbsPath(stack[i].filename) : i \in 1..(Len(stack) - 1)}

Entering == pc = "resolve" /\ stack # <<>> /\ Top.st = "entry"

\* the innermost call has just failed with the circular-include error
RaisedCircular(stk) ==
    /\ stk # <<>>
    /\ stk[Len(stk)].st = "ret"
    /\ stk[Len(stk)].err.kind = "circular"
    /\ stk[Len(stk)].err.wraps = 0

ReadBefore(absPath) == \E i \in 1..Len(readLog) : readLog[i] = absPath

----------------------------------------------------------------------------
(* Claims about processIncludes *)

\* C1 as stated: when the root file includes itself, directly or through a
\* chain of directives, processIncludes returns the circular-include error
\* and the run writes nothing to standard output.
C1_CycleGivesCircularError ==
    (RootOnCycle /\ Resolved) => (err.kind = "circular" /\ stdout = <<>>)

\* C1 as amended: when the root file includes itself, directly or through a
\* chain of directives, the run writes nothing to standard output and
\* processIncludes returns an error, with which main exits with status 1;
\* the error is the circular-include error when every file handed to
\* os.ReadFile was read, and otherwise the read error of the file that was
\* not.
C1_CycleGivesError ==
    /\ stdout # <<>> => ~RootOnCycle
    /\ (Resolved /\ RootOnCycle) =>
            /\ pc = "exit" /\ exitCode = 1
            /\ err.kind \in {"circular", "read"}
            /\ err.kind = "circular" <=>
                   \A i \in 1..Len(readLog) : readLog[i].c \in FilePaths

\* a cycle through a second file was found: the error was wrapped twice
C1_Witness ==
    /\ RootOnCycle /\ pc = "exit" /\ err.kind = "circular" /\ err.wraps >= 2
    /\ stdout = <<>> /\ exitCode = 1

\* C2 as stated: a call fails with the circular-include error only when the
\* file it is about to enter is on the current recursion chain; a second
\* sibling directive naming a file that has returned does not fail.
C2_CircularOnlyOnChain ==
    [][(Entering /\ RaisedCircular(stack')) => AbsPath(Top.filename) \in Chain]_vars

\* C3: a file that was entered earlier in the traversal and is not on the
\* current recursion chain (a diamond) fails with the circular-include error
\* when it is entered again, without being read; the shared set loses no
\* entry when a call returns.
C3_DiamondIsCircular ==
    [][/\ included \subseteq included'
       /\ (Entering /\ ReadBefore(AbsPath(Top.filename))
                    /\ AbsPath(Top.filename) \notin Chain)
            => (RaisedCircular(stack') /\ readLog' = readLog)]_vars

\* the second visit of a diamond has failed: the file is included by the
\* caller, which is not the root, and by another file that is not on the chain
C3_Witness ==
    /\ pc = "resolve" /\ Len(stack) = 3 /\ RaisedCircular(stack)
    /\ AbsPath(Top.filename) \notin Chain
    /\ \E p \in FilePaths :
         /\ Abs(p) \notin Chain
         /\ Abs(p) # AbsPath(Top.filename)
         /\ AbsPath(Top.filename).c \in IncludesOf(p)

\* C4: a call that reads a file none of whose lines is a directive returns
\* the file's text unchanged and no error, on the fast path and on the
\* line-by-line path; the call for the root file always does (a nested call
\* refused by the circular check reads nothing).
C4_NoDirectiveIsIdentity ==
    (pc = "resolve" /\ stack # <<>> /\ Top.st = "ret" /\ Readable(Top.filename)) =>
        LET at == OsResolve(Top.filename).c
        IN  (/\ files[at].known
             /\ NoDirectiveLine(files[at].text)
             /\ ~RaisedCircular(stack))
            => (Top.err = NoError /\ Top.val = files[at].text)

\* the line-by-line path returned a text that ends with a newline
C4_Witness ==
    /\ pc = "resolve" /\ Len(stack) = 1 /\ Top.st = "ret" /\ Top.err = NoError
    /\ LET text == files[RootPath].text
       IN  /\ Contains(text) /\ NoDirectiveLine(text)
           /\ Len(text) > 1 /\ text[Len(text)] = NL
           /\ Top.val = text

----------------------------------------------------------------------------
(* Claims about the transcoder *)

\* every node of a forest, at every depth
RECURSIVE Subnodes(_)
Subnodes(nodes) ==
    UNION {{nodes[i]} \cup Subnodes(nodes[i].children) : i \in 1..Len(nodes)}

\* the nodes below the top level
Nested(nodes) == UNION {Subnodes(nodes[i].children) : i \in 1..Len(nodes)}

Converted == pc \in {"print", "done"}

\* the places of the nodes named key, and the k-th of them in document order
Positions(nodes, key) == {i \in 1..Len(nodes) : nodes[i].name = key}
Nth(P, k) == CHOOSE i \in P : Cardinality({j \in P : j < i}) = k - 1

\* v is what a group of same-named siblings must map to
IsGroupValue(nodes, key, v) ==
    LET P == Positions(nodes, key)
    IN  IF Cardinality(P) >= 2
        THEN /\ v.t = "array"
             /\ Len(v.a) = Cardinality(P)
             /\ \A k \in 1..Cardinality(P) : v.a[k] = convertNodeToValue(nodes[Nth(P, k)])
        ELSE v = convertNodeToValue(nodes[Nth(P, 1)])

\* the name of the argument at position i, as the claims state it
ExpectedArgName(i) == IF i <= NumFlags THEN argNameMap[i] ELSE "arg" \o ToString(i)

IsScalar(v) == v.t \notin {"object", "array"}

\* C5: every node that has a child, at any depth, converts to a JSON object,
\* whatever its arguments and properties; so does the value the document
\* holds for a top-level node that is the only one of its name.
C5_ChildrenGiveObject ==
    /\ \A n \in Subnodes(doc) : n.children # <<>> => convertNodeToValue(n).t = "object"
    /\ Converted =>
         \A i \in 1..Len(doc) :
            (doc[i].children # <<>> /\ Cardinality(Positions(doc, doc[i].name)) = 1)
                => jsonData.m[doc[i].name].t = "object"

\* a node below the top level with a child and no argument or property
C5_Witness ==
    /\ pc = "done"
    /\ \E n \in Nested(doc) :
         /\ n.children # <<>> /\ n.args = <<>> /\ DOMAIN n.props = {}
         /\ convertNodeToValue(n).t = "object"

\* C6: at the root and among the children of any node, a name borne by two
\* nodes or more maps to the array of their values in document order, and a
\* name borne by one node maps to that node's value itself.
C6_GroupsByName ==
    /\ Converted =>
         /\ jsonData.t = "object"
         /\ DOMAIN jsonData.m = {doc[i].name : i \in 1..Len(doc)}
         /\ \A key \in DOMAIN jsonData.m : IsGroupValue(doc, key, jsonData.m[key])
    /\ \A n \in Subnodes(doc) :
         n.children # <<>> =>
            \A i \in 1..Len(n.children) :
               /\ n.children[i].name \in DOMAIN convertNodeToValue(n).m
               /\ IsGroupValue(n.children, n.children[i].name,
                               convertNodeToValue(n).m[n.children[i].name])

\* a single top-level node with two children of one name and different values
C6_Witness ==
    /\ pc = "done" /\ Len(doc) = 1 /\ Len(doc[1].children) = 2
    /\ doc[1].children[1].name = doc[1].children[2].name
    /\ convertNodeToValue(doc[1].children[1]) # convertNodeToValue(doc[1].children[2])
    /\ jsonData.m[doc[1].name].m[doc[1].children[1].name].t = "array"

\* C7: a node with no children and a property converts to an object whose
\* keys are exactly the names of its argument positions and of its
\* properties; every value is a scalar, a property's key holds the
\* property's value, and an argument's key that no property and no later
\* argument shares holds the argument's value.
C7_PropertiesGiveFlatObject ==
    \A n \in Subnodes(doc) :
        (n.children = <<>> /\ DOMAIN n.props # {}) =>
            LET v == convertNodeToValue(n)
            IN  /\ v.t = "object"
                /\ DOMAIN v.m = {ExpectedArgName(i) : i \in 1..Len(n.args)} \cup DOMAIN n.props
                /\ \A key \in DOMAIN v.m : IsScalar(v.m[key])
                /\ \A name \in DOMAIN n.props : v.m[name] = convertValue(n.props[name])
                /\ \A i \in 1..Len(n.args) :
                     (/\ ExpectedArgName(i) \notin DOMAIN n.props
                      /\ \A j \in (i + 1)..Len(n.args) : ExpectedArgName(j) # ExpectedArgName(i))
                        => v.m[ExpectedArgName(i)] = convertValue(n.args[i])

\* a top-level node with two arguments and one property: three keys
C7_Witness ==
    /\ pc = "done" /\ Len(doc) = 1
    /\ doc[1].children = <<>> /\ Len(doc[1].args) = 2 /\ DOMAIN doc[1].props = {"x"}
    /\ DOMAIN jsonData.m[doc[1].name].m = {"arg1", "arg2", "x"}

\* C8: a node with no children and no properties converts to null when it
\* has no argument, to its argument's scalar itself when it has one, and to
\* the array of its arguments' scalars in order when it has two or more.
C8_ShapeByArgumentCount ==
    \A n \in Subnodes(doc) :
        (n.children = <<>> /\ DOMAIN n.props = {}) =>
            LET v == convertNodeToValue(n)
                k == Len(n.args)
            IN  /\ k = 0 => v = JNull
                /\ k = 1 => (v = convertValue(n.args[1]) /\ IsScalar(v))
                /\ k >= 2 => /\ v.t = "array"
                             /\ Len(v.a) = k
                             /\ \A i \in 1..k : v.a[i] = convertValue(n.args[i])

\* three nodes without children or properties: no, one and two arguments
C8_Witness ==
    /\ pc = "done"
    /\ \A k \in {0, 1, 2} :
         \E n \in Subnodes(doc) :
            n.children = <<>> /\ DOMAIN n.props = {} /\ Len(n.args) = k

\* C9: in every object a node converts to, at every depth, the argument at
\* position i has the key argNameMap[i] for i in 1..5 and "arg<i>" beyond,
\* holding the argument's value unless a later argument, a property or a
\* child shares the key; no step of the conversion changes argNameMap.
C9_ArgumentNames ==
    [][/\ argNameMap' = argNameMap
       /\ \A n \in Subnodes(doc) :
            (n.children # <<>> \/ DOMAIN n.props # {}) =>
                LET v == convertNodeToValue(n)
                IN  \A i \in 1..Len(n.args) :
                       /\ ExpectedArgName(i) \in DOMAIN v.m
                       /\ (/\ ExpectedArgName(i) \notin DOMAIN n.props
                           /\ \A c \in 1..Len(n.children) :
                                 n.children[c].name # ExpectedArgName(i)
                           /\ \A j \in (i + 1)..Len(n.args) :
                                 ExpectedArgName(j) # ExpectedArgName(i))
                          => v.m[ExpectedArgName(i)] = convertValue(n.args[i])]_vars

\* -arg1=x was given; a top-level node and its child have more than five
\* arguments each, the sixth under the key "arg6"
C9_Witness ==
    /\ pc = "done" /\ argNameMap[1] = "x" /\ Len(doc) = 1
    /\ Len(doc[1].args) > NumFlags /\ Len(doc[1].children) = 1
    /\ Len(doc[1].children[1].args) > NumFlags
    /\ {"x", "arg6"} \subseteq DOMAIN jsonData.m[doc[1].name].m
    /\ {"x", "arg6"} \subseteq DOMAIN jsonData.m[doc[1].name].m[doc[1].children[1].name].m

\* C10: every key of the object a node converts to holds the value put
\* last: that of the child group of that name if there is one, else that of
\* the property of that name if there is one, else that of the last
\* argument whose position has that name.
C10_LastInsertionWins ==
    \A n \in Subnodes(doc) :
        (n.children # <<>> \/ DOMAIN n.props # {}) =>
            LET v == convertNodeToValue(n)
            IN  \A key \in DOMAIN v.m :
                   IF Positions(n.children, key) # {}
                   THEN IsGroupValue(n.children, key, v.m[key])
                   ELSE IF key \in DOMAIN n.props
                   THEN v.m[key] = convertValue(n.props[key])
                   ELSE LET P == {i \in 1..Len(n.args) : ExpectedArgName(i) = key}
                        IN  /\ P # {}
                            /\ v.m[key] = convertValue(n.args[Nth(P, Cardinality(P))])

\* -arg1=x -arg2=x were given; a node has two arguments, a property x and a
\* child x, and its key x holds the child's value
C10_Witness ==
    /\ pc = "done" /\ argNameMap[1] = "x" /\ argNameMap[2] = "x" /\ Len(doc) = 1
    /\ Len(doc[1].args) >= 2 /\ "x" \in DOMAIN doc[1].props
    /\ Len(doc[1].children) = 1 /\ doc[1].children[1].name = "x"
    /\ jsonData.m[doc[1].name].m["x"] = convertNodeToValue(doc[1].children[1])
    /\ jsonData.m[doc[1].name].m["x"] # convertValue(doc[1].props["x"])

----------------------------------------------------------------------------
(* Claims about the pipeline and the traversal *)

\* every file handed to os.ReadFile so far was read
AllReadsSucceeded == cwdOk /\ \A i \in 1..Len(readLog) : readLog[i].c \in FilePaths

\* the document holds the float that json.MarshalIndent refuses
HoldsNaN(nodes) ==
    \E n \in Subnodes(nodes) : \E i \in 1..Len(n.args) : n.args[i] = Value("float64", "NaN")

\* C11: JSON is on standard output only when resolution, parsing and
\* conversion have all succeeded, and then the run ends with status 0 and
\* nothing on standard error; a run that ends otherwise has reported to
\* standard error, exits with status 1 and has written nothing to standard
\* output; a call of processIncludes that fails returns the empty text, and
\* the failure of a nested call makes its caller fail, at every depth.
C11_OutputOnlyOnSuccess ==
    /\ [](/\ stdout # <<>> =>
                /\ pc = "done" /\ exitCode = 0 /\ stderr = <<>> /\ err = NoError
                /\ AllReadsSucceeded
                /\ ParseOk(data) /\ doc = Parse(data) /\ ~HoldsNaN(doc)
                /\ stdout = <<convertKDLToJSON(doc)>>
          /\ pc = "exit" => (exitCode = 1 /\ stderr # <<>> /\ stdout = <<>>)
          /\ (Resolved /\ (~AllReadsSucceeded \/ err # NoError)) => pc = "exit"
          /\ \A i \in 1..Len(stack) :
                (stack[i].st = "ret" /\ stack[i].err # NoError) => stack[i].val = <<>>)
    /\ [][(pc = "resolve" /\ Len(stack) > 1 /\ Top.st = "ret" /\ Top.err # NoError)
            => /\ Len(stack') = Len(stack) - 1
               /\ stack'[Len(stack')].st = "ret"
               /\ stack'[Len(stack')].err.kind = Top.err.kind
               /\ stack'[Len(stack')].val = <<>>]_vars

\* a file included from an included file could not be read, and the run has
\* ended with status 1
C11_Witness ==
    /\ pc = "exit" /\ exitCode = 1 /\ err.kind = "read" /\ err.wraps >= 2
    /\ stderr = <<"Error processing includes">> /\ stdout = <<>>

\* the file that a directive of the file at path names: the operating
\* system's resolution of the directive's path from the file's directory
TargetOf(path, t) == Walk(SubSeq(path, 1, Len(path) - 1), t).c

\* the lines of the file at path with every directive line replaced, in
\* place, by the lines of the file it names, to the depth n
RECURSIVE Flattened(_, _), FlattenedFrom(_, _, _, _)
FlattenedFrom(path, lines, i, n) ==
    IF i > Len(lines) THEN <<>>
    ELSE (IF Matches(lines[i])
          THEN Flattened(TargetOf(path, Submatch(lines[i])), n - 1)
          ELSE <<lines[i]>>)
         \o FlattenedFrom(path, lines, i + 1, n)

Flattened(path, n) ==
    IF n = 0 \/ path \notin FilePaths THEN <<>>
    ELSE IF ~files[path].known THEN <<>>
    ELSE FlattenedFrom(path, Split(files[path].text), 1, n)

\* the nodes of a sequence of lines, one for each line that is not blank
NodesOf(lines) ==
    LET NotBlank(l) == Words(l) # <<>>
        kept == SelectSeq(lines, NotBlank)
    IN  [i \in 1..Len(kept) |-> ParseLine(kept[i])]

ResolutionSucceeded ==
    Resolved /\ readLog # <<>> /\ err.kind \in {"none", "parse", "convert"}

\* C12: when resolution succeeds, the lines of the resolved text are the
\* lines of the root file with every directive line replaced, in place and
\* to every depth, by the lines of the file it names; the JSON written has
\* one key for each name among the nodes of those lines, which holds the
\* array of as many values as there are nodes of that name, in the order of
\* the lines, or the value itself when there is one node.
C12_IncludedInPlace ==
    /\ ResolutionSucceeded => Split(data) = Flattened(RootPath, Cardinality(FilePaths))
    /\ stdout # <<>> =>
         LET nodes == NodesOf(Flattened(RootPath, Cardinality(FilePaths)))
             json == stdout[1]
         IN  /\ json.t = "object"
             /\ DOMAIN json.m = {nodes[i].name : i \in 1..Len(nodes)}
             /\ \A key \in DOMAIN json.m :
                  /\ IsGroupValue(nodes, key, json.m[key])
                  /\ Cardinality(Positions(nodes, key)) >= 2
                        => Len(json.m[key].a) = Cardinality(Positions(nodes, key))

\* the root file holds a node of its own between two directives, or two
\* directives and no more; the nodes n of the two included files are in one
\* array, in the order of the directives
C12_Witness ==
    /\ pc = "done" /\ Len(readLog) = 3
    /\ LET lines == Split(files[RootPath].text)
       IN  /\ Matches(lines[1]) /\ Matches(lines[Len(lines)])
           /\ TargetOf(RootPath, Submatch(lines[1])) = <<"w", "c">>
           /\ TargetOf(RootPath, Submatch(lines[Len(lines)])) = <<"w", "b">>
    /\ "n" \in DOMAIN stdout[1].m
    /\ stdout[1].m["n"].t = "array"
    /\ stdout[1].m["n"].a[1] = JScalar("string", "c")
    /\ stdout[1].m["n"].a[Len(stdout[1].m["n"].a)] = JScalar("string", "b")

\* the directive that the innermost call was made for, as it is spelled
DirectiveOfTop ==
    LET caller == stack[Len(stack) - 1] IN Submatch(caller.lines[caller.i])

\* the file that the directive of the innermost call names: the operating
\* system's resolution from the directory of the including file
NamedByDirective ==
    LET caller == stack[Len(stack) - 1]
        at == OsResolve(caller.filename).c
    IN  Walk(SubSeq(at, 1, Len(at) - 1), DirectiveOfTop)

\* C13: a call made for a directive that names, in whatever spelling, a file
\* whose absolute path is in the visited set fails with the circular-include
\* error; no call whose absolute path is in the visited set reads a file;
\* and a path is in the visited set from the moment it is handed to
\* os.ReadFile, whether the read succeeds or not.
C13_KeyedOnAbsolutePath ==
    /\ [][/\ (Entering /\ Len(stack) > 1 /\ NamedByDirective.ok
                       /\ Abs(NamedByDirective.c) \in included)
              => RaisedCircular(stack')
          /\ (Entering /\ (Top.filename.abs \/ cwdOk) /\ AbsPath(Top.filename) \in included)
              => (readLog' = readLog /\ files' = files)]_vars
    /\ [](\A i \in 1..Len(readLog) : readLog[i] \in included)

\* the root file was entered as "a"; a file in a subdirectory names it as
\* "../a", and the call made for that directive has failed as circular
C13_Witness ==
    /\ pc = "resolve" /\ Len(stack) >= 2 /\ RaisedCircular(stack)
    /\ DirectiveOfTop = <<"..", "a">>
    /\ DirectiveOfTop # RootFile.c
    /\ AbsPath(Top.filename) = AbsPath(RootFile)
    /\ readLog[1] = AbsPath(RootFile)

\* C14: whatever directives the files hold, cyclic or not, the call of
\* processIncludes that main makes with an empty map returns, with a text or
\* with an error; no step of the traversal takes a path out of the map; and
\* no absolute path is handed to os.ReadFile twice.
C14_TraversalTerminates ==
    /\ (pc = "resolve") ~> (Resolved /\ stack = <<>> /\ (err = NoError \/ data = <<>>))
    /\ [][included \subseteq included']_vars
    /\ [](\A i, j \in 1..Len(readLog) : readLog[i] = readLog[j] => i = j)

\* the four files include one another in a ring; each was read once and the
\* call has returned
C14_Witness ==
    /\ Resolved /\ stack = <<>> /\ Len(readLog) = Cardinality(FilePaths)
    /\ included = {Abs(p) : p \in FilePaths}
    /\ err.kind = "circular" /\ err.wraps = Cardinality(FilePaths)
    /\ RootOnCycle

----------------------------------------------------------------------------
(* Claims about the order of iteration *)

\* C15: whatever the orders in which the ranges over nodeGroups, childGroups
\* and node.Properties yield their keys, the document converts to one value
\* tree, and so does every node of it; two conversions of a document under
\* one argNameMap are equal, also when argument names, property names and
\* child names collide.
C15_OrderIndependent ==
    /\ \A r1, r2 \in convertKDLToJSONAnyOrder(doc) : r1 = r2
    /\ \A n \in Subnodes(doc) : \A v1, v2 \in convertNodeToValueAnyOrder(n) : v1 = v2
    /\ convertKDLToJSONAnyOrder(doc) = {convertKDLToJSON(doc)}
    /\ Converted => jsonData = convertKDLToJSON(doc)

\* -arg1=x was given; a node has an argument, the properties arg1 and x and
\* the children arg1 and x; its two ranges have two orders each
C15_Witness ==
    /\ pc = "done" /\ argNameMap[1] = "x" /\ Len(doc) = 1
    /\ Len(doc[1].args) >= 1 /\ DOMAIN doc[1].props = {"x", "arg1"}
    /\ GroupKeys(doc[1].children) = {"x", "arg1"}
    /\ Cardinality(IterationOrders(DOMAIN doc[1].props)) = 2
    /\ Cardinality(IterationOrders(GroupKeys(doc[1].children))) = 2
    /\ stdout = <<convertKDLToJSON(doc)>>

====
